---- MODULE Spec2Model ----
(***************************************************************************)
(* Model of src/app.py: the column resolver (normalize, detectar_columnas) *)
(* and the dataset normalizer (cargar_datos) of the marketing dashboard,   *)
(* followed by the module-level status message and filter gate.            *)
(*                                                                         *)
(* Characters are one-token strings; a header (a pandas column label) is a *)
(* record [kind, chars]: kind "str" for a Python str, "obj" for any other  *)
(* label (a number, a timestamp), "none" for Python's None.  Accented      *)
(* letters are written as tokens such as "e_acute"; their NFKD             *)
(* decomposition yields the base letter followed by a combining mark.      *)
(***************************************************************************)
EXTENDS Integers, Sequences, FiniteSets, TLC

VARIABLES
    files,          \* the uploaded batch (uploaded_files), fixed per run
    pc,             \* position in the script
    fi,             \* number of files of the batch already iterated
    si,             \* number of sheets of the open file already iterated
    lista_df,       \* cargar_datos: the accumulating list of frames
    mensajes,       \* every st.info / st.warning / st.error / st.success shown, in order
    datos,          \* the module-level frame `datos`
    origen_filas,   \* history: for each row appended to lista_df, <<file, sheet, row>> it came from
    filtros,        \* TRUE once the filtering / chart section (line 120 on) has run
    encabezados,    \* detectar_columnas: df.columns of the frame being resolved
    ci,             \* detectar_columnas: number of columns already iterated
    columnas_detectadas \* detectar_columnas: the dictionary being filled

vars == <<files, pc, fi, si, lista_df, mensajes, datos, origen_filas, filtros,
          encabezados, ci, columnas_detectadas>>

-----------------------------------------------------------------------------
(* Bounds of the model *)

\* largest number of batch entries (sheets plus unreadable files) in one upload
MaxTablas == 3
\* largest number of columns of a frame given to detectar_columnas on its own
MaxEncabezados == 3

-----------------------------------------------------------------------------
(* Characters and normalize (lines 10-14) *)

Str(cs) == [kind |-> "str", chars |-> cs]
Obj(cs) == [kind |-> "obj", chars |-> cs]
None == [kind |-> "none", chars |-> <<>>]

UpperChars == <<"A", "C", "E", "F", "G", "H", "I", "L", "N", "O", "Q", "R", "S", "T">>
LowerChars == <<"a", "c", "e", "f", "g", "h", "i", "l", "n", "o", "q", "r", "s", "t">>

\* str.lower() on one character
Lower(c) ==
    IF \E i \in 1..Len(UpperChars) : UpperChars[i] = c
    THEN LowerChars[CHOOSE i \in 1..Len(UpperChars) : UpperChars[i] = c]
    ELSE c

\* unicodedata.normalize('NFKD', c) for one character
NFKD(c) ==
    CASE c = "e_acute" -> <<"e", "comb_acute">>
      [] c = "E_acute" -> <<"E", "comb_acute">>
      [] c = "o_acute" -> <<"o", "comb_acute">>
      [] c = "O_acute" -> <<"O", "comb_acute">>
      [] c = "n_tilde" -> <<"n", "comb_tilde">>
      [] c = "N_tilde" -> <<"N", "comb_tilde">>
      [] OTHER -> <<c>>

\* unicodedata.combining(c) # 0
Combining(c) == c \in {"comb_acute", "comb_tilde"}

RECURSIVE NFKDForm(_)
NFKDForm(cs) ==
    IF cs = <<>> THEN <<>> ELSE NFKD(Head(cs)) \o NFKDForm(Tail(cs))

RECURSIVE StripLower(_)
StripLower(cs) ==
    IF cs = <<>> THEN <<>>
    ELSE IF Combining(Head(cs)) THEN StripLower(Tail(cs))
    ELSE <<Lower(Head(cs))>> \o StripLower(Tail(cs))

\* normalize(text): "" for a non-str, else NFKD, drop combining marks, lower
Normalize(text) ==
    IF text.kind # "str" THEN <<>> ELSE StripLower(NFKDForm(text.chars))

-----------------------------------------------------------------------------
(* detectar_columnas (lines 17-35) *)

Claves == <<"fecha", "region", "clics", "impresiones", "conversiones", "coste",
            "canal", "campana", "leads">>

Esenciales == <<"fecha", "region", "clics", "impresiones", "conversiones", "coste">>

Opcionales == <<"canal", "campana", "leads">>

\* the characters of each dictionary key
CharsDeClave ==
    [fecha |-> <<"f", "e", "c", "h", "a">>,
     region |-> <<"r", "e", "g", "i", "o", "n">>,
     clics |-> <<"c", "l", "i", "c", "s">>,
     impresiones |-> <<"i", "m", "p", "r", "e", "s", "i", "o", "n", "e", "s">>,
     conversiones |-> <<"c", "o", "n", "v", "e", "r", "s", "i", "o", "n", "e", "s">>,
     coste |-> <<"c", "o", "s", "t", "e">>,
     canal |-> <<"c", "a", "n", "a", "l">>,
     campana |-> <<"c", "a", "m", "p", "a", "n", "a">>,
     leads |-> <<"l", "e", "a", "d", "s">>]
ClaveChars(key) == CharsDeClave[key]

\* Python's `sub in s` on strings
Contains(sub, s) ==
    \E i \in 0..(Len(s) - Len(sub)) : SubSeq(s, i + 1, i + Len(sub)) = sub

\* the dictionary of lines 19-29
DiccionarioInicial ==
    [fecha |-> None, region |-> None, clics |-> None, impresiones |-> None,
     conversiones |-> None, coste |-> None, canal |-> None, campana |-> None,
     leads |-> None]

\* a variant of the loop body that keeps the first match instead of the last
DetectarColPrimera(det, col) ==
    LET col_norm == Normalize(col)
        Nuevo(key) == IF Contains(ClaveChars(key), col_norm) /\ det[key] = None
                      THEN col ELSE det[key]
    IN  [fecha |-> Nuevo("fecha"), region |-> Nuevo("region"), clics |-> Nuevo("clics"),
         impresiones |-> Nuevo("impresiones"), conversiones |-> Nuevo("conversiones"),
         coste |-> Nuevo("coste"), canal |-> Nuevo("canal"), campana |-> Nuevo("campana"),
         leads |-> Nuevo("leads")]

\* one iteration of the outer loop (lines 31-34): every key the column matches is overwritten
DetectarCol(det, col) ==
    LET col_norm == Normalize(col)
        Nuevo(key) == IF Contains(ClaveChars(key), col_norm) THEN col ELSE det[key]
    IN  [fecha |-> Nuevo("fecha"), region |-> Nuevo("region"), clics |-> Nuevo("clics"),
         impresiones |-> Nuevo("impresiones"), conversiones |-> Nuevo("conversiones"),
         coste |-> Nuevo("coste"), canal |-> Nuevo("canal"), campana |-> Nuevo("campana"),
         leads |-> Nuevo("leads")]

RECURSIVE DetectarDesde(_, _)
DetectarDesde(det, cols) ==
    IF cols = <<>> THEN det ELSE DetectarDesde(DetectarCol(det, Head(cols)), Tail(cols))

\* detectar_columnas(df), df.columns = cols
DetectarColumnas(cols) == DetectarDesde(DiccionarioInicial, cols)

-----------------------------------------------------------------------------
(* Cells and frames.  A cell is [t, n, d, s]: t = "num" is the number n/d   *)
(* (d > 0, lowest terms), "inf" an infinity of sign n, "nan" a missing      *)
(* number, "text" the string s, "date" the timestamp of day n (yyyymmdd),   *)
(* "nat" a missing timestamp.  A frame is [columns, index, rows]: rows[r]   *)
(* is aligned with columns, index[r] is the row's pandas index label.       *)

Num(n) == [t |-> "num", n |-> n, d |-> 1, s |-> ""]
NaN == [t |-> "nan", n |-> 0, d |-> 1, s |-> ""]
NaT == [t |-> "nat", n |-> 0, d |-> 1, s |-> ""]
Inf(sign) == [t |-> "inf", n |-> sign, d |-> 1, s |-> ""]
Text(s) == [t |-> "text", n |-> 0, d |-> 1, s |-> s]
Timestamp(day) == [t |-> "date", n |-> day, d |-> 1, s |-> ""]

Abs(x) == IF x < 0 THEN -x ELSE x

RECURSIVE GCD(_, _)
GCD(a, b) == IF b = 0 THEN a ELSE GCD(b, a % b)

\* the number n/d, d # 0, in lowest terms with a positive denominator
Frac(n, d) ==
    LET g == GCD(Abs(n), Abs(d))
        sg == IF d < 0 THEN -1 ELSE 1
    IN  [t |-> "num", n |-> (sg * n) \div g, d |-> (sg * d) \div g, s |-> ""]

\* Series / Series on one element: float division, x/0 is +-inf and 0/0 is nan, never an exception
Div(a, b) ==
    IF a.t # "num" \/ b.t # "num" THEN NaN
    ELSE IF b.n = 0 THEN (IF a.n = 0 THEN NaN ELSE Inf(IF a.n > 0 THEN 1 ELSE -1))
    ELSE Frac(a.n * b.d, a.d * b.n)

\* Series * 100 on one element
Por100(a) ==
    CASE a.t = "num" -> Frac(a.n * 100, a.d)
      [] a.t = "inf" -> a
      [] OTHER -> NaN

\* Series > 0 on one element: False for a missing value
Gt0(a) == a.t = "num" /\ a.n > 0

\* the text dates the parser understands
ParseFecha(s) ==
    CASE s = "2024-01-05" -> Timestamp(20240105)
      [] s = "2024-02-10" -> Timestamp(20240210)
      [] OTHER -> NaT

\* pd.to_datetime(..., errors='coerce') on one element
ToDatetime(c) ==
    CASE c.t = "date" -> c
      [] c.t = "text" -> ParseFecha(c.s)
      [] c.t = "num" -> Timestamp(19700101)
      [] OTHER -> NaT

\* the sequence f as an explicit tuple (the same value; it only fixes how it is computed)
Tup(f) == f \o <<>>

DataFrame(cols, idx, rws) == [columns |-> cols, index |-> idx, rows |-> rws]

\* pd.DataFrame()
EmptyFrame == DataFrame(<<>>, <<>>, <<>>)

\* DataFrame.empty
IsEmpty(df) == Len(df.columns) = 0 \/ Len(df.rows) = 0

\* the canonical column label of a key
Canon(key) == Str(ClaveChars(key))

CTRLabel == Str(<<"C", "T", "R">>)
CPCLabel == Str(<<"C", "o", "s", "t", "e", "_", "p", "o", "r", "_", "c", "o", "n", "v", "e", "r", "s", "i", "o", "n">>)
ArchivoLabel == Str(<<"o", "r", "i", "g", "e", "n", "_", "a", "r", "c", "h", "i", "v", "o">>)
HojaLabel == Str(<<"o", "r", "i", "g", "e", "n", "_", "h", "o", "j", "a">>)

\* the positions of the columns labelled `label`
Posiciones(cols, label) == {i \in 1..Len(cols) : cols[i] = label}

HasDuplicates(cols) == \E i, j \in 1..Len(cols) : i < j /\ cols[i] = cols[j]

\* df[label] for a label carried by exactly one column: the value in row r
Valor(df, r, label) == df.rows[r][CHOOSE i \in Posiciones(df.columns, label) : TRUE]

\* df.rename(columns=m), m a function from labels to labels; labels outside m are kept
Rename(df, m) ==
    [df EXCEPT !.columns =
        Tup([i \in 1..Len(df.columns) |->
            IF df.columns[i] \in DOMAIN m THEN m[df.columns[i]] ELSE df.columns[i]])]

\* df[label] = vals: every column carrying the label is overwritten, or a new last column is added
SetCol(df, label, vals) ==
    IF Posiciones(df.columns, label) = {}
    THEN [df EXCEPT !.columns = Append(df.columns, label),
                    !.rows = Tup([r \in 1..Len(df.rows) |-> Append(df.rows[r], vals[r])])]
    ELSE [df EXCEPT !.rows =
            Tup([r \in 1..Len(df.rows) |->
                Tup([i \in 1..Len(df.columns) |->
                    IF df.columns[i] = label THEN vals[r] ELSE df.rows[r][i]])])]

RECURSIVE NoNulos(_, _, _)
\* the positions 1..n of the rows whose value under `label` is not missing, in increasing order
NoNulos(df, label, n) ==
    IF n = 0 THEN <<>>
    ELSE IF Valor(df, n, label).t \in {"nat", "nan"} THEN NoNulos(df, label, n - 1)
    ELSE Append(NoNulos(df, label, n - 1), n)

\* df.dropna(subset=[label]): the rows whose value is missing are removed, order and index labels kept
DropNa(df, label) ==
    LET keep == NoNulos(df, label, Len(df.rows))
    IN  [df EXCEPT !.index = Tup([k \in 1..Len(keep) |-> df.index[keep[k]]]),
                   !.rows = Tup([k \in 1..Len(keep) |-> df.rows[keep[k]]])]

-----------------------------------------------------------------------------
(* cargar_datos, the body of the per-sheet try block (lines 49-80) *)

\* a variant of the gate that looks at the first essential key only
FaltaEsencialSoloFecha(cols) == cols["fecha"] = None

\* line 52: None in [cols["fecha"], ..., cols["coste"]]
FaltaEsencial(cols) == \E i \in 1..Len(Esenciales) : cols[Esenciales[i]] = None

\* the dict literal of lines 56-63: when one header is the key of several entries, the last entry stays
DictEsenciales(cols) ==
    [h \in {cols[Esenciales[i]] : i \in 1..Len(Esenciales)} |->
        Canon(Esenciales[CHOOSE i \in 1..Len(Esenciales) :
            /\ cols[Esenciales[i]] = h
            /\ \A j \in 1..Len(Esenciales) : cols[Esenciales[j]] = h => j <= i])]

\* Python truthiness of a detected header (lines 65, 67, 69)
Truthy(h) == h # None /\ h # Str(<<>>)

\* lines 65-70 for one optional key
RenombrarOpcional(df, cols, key) ==
    IF Truthy(cols[key]) THEN Rename(df, (cols[key] :> Canon(key))) ELSE df

\* lines 56-70: the frame after all renames
Renombrado(df, cols) ==
    RenombrarOpcional(
        RenombrarOpcional(
            RenombrarOpcional(Rename(df, DictEsenciales(cols)), cols, "canal"),
            cols, "campana"),
        cols, "leads")

\* a variant of the date step that drops no row
ConFechaSinDropna(df) ==
    SetCol(df, Canon("fecha"), [r \in 1..Len(df.rows) |-> ToDatetime(Valor(df, r, Canon("fecha")))])

\* lines 72-73: coerce the date column, then drop the rows it could not parse
ConFecha(df) ==
    DropNa(SetCol(df, Canon("fecha"),
                  [r \in 1..Len(df.rows) |-> ToDatetime(Valor(df, r, Canon("fecha")))]),
           Canon("fecha"))

\* a variant of the CTR step without the guard on impresiones
CTRSinGuarda(clics, impresiones) == Por100(Div(clics, impresiones))

\* line 75 on one row: np.where(impresiones > 0, clics / impresiones * 100, 0)
CTRDe(clics, impresiones) ==
    IF Gt0(impresiones) THEN Por100(Div(clics, impresiones)) ELSE Num(0)

\* line 76 on one row: np.where(conversiones > 0, coste / conversiones, nan)
CPCDe(coste, conversiones) ==
    IF Gt0(conversiones) THEN Div(coste, conversiones) ELSE NaN

\* a variant of the metric step that adds the CTR column only
ConMetricasSinCPC(df) ==
    SetCol(df, CTRLabel,
           [r \in 1..Len(df.rows) |->
               CTRDe(Valor(df, r, Canon("clics")), Valor(df, r, Canon("impresiones")))])

\* lines 75-76
ConMetricas(df) ==
    LET d1 == SetCol(df, CTRLabel,
                [r \in 1..Len(df.rows) |->
                    CTRDe(Valor(df, r, Canon("clics")), Valor(df, r, Canon("impresiones")))])
    IN  SetCol(d1, CPCLabel,
                [r \in 1..Len(d1.rows) |->
                    CPCDe(Valor(d1, r, Canon("coste")), Valor(d1, r, Canon("conversiones")))])

\* a variant of the tagging step that writes the sheet name into both columns
ConOrigenSoloHoja(df, archivo, hoja) ==
    SetCol(SetCol(df, ArchivoLabel, [r \in 1..Len(df.rows) |-> Text(hoja)]),
           HojaLabel, [r \in 1..Len(df.rows) |-> Text(hoja)])

\* lines 78-79
ConOrigen(df, archivo, hoja) ==
    SetCol(SetCol(df, ArchivoLabel, [r \in 1..Len(df.rows) |-> Text(archivo)]),
           HojaLabel, [r \in 1..Len(df.rows) |-> Text(hoja)])

\* The statements of lines 72-76 that raise on the renamed frame: df["fecha"],
\* df["clics"], ... raise KeyError when no column carries the label; when several
\* columns carry it they select a frame, which pd.to_datetime rejects and which
\* cannot be combined with a column or stored as one.
Lanza(df) ==
    \E key \in {"fecha", "clics", "impresiones", "conversiones", "coste"} :
        Cardinality(Posiciones(df.columns, Canon(key))) # 1

\* the outcome of the try block for one sheet: "omitida" (line 54), "error" (line 82) or "ok" (line 80)
ProcesarHoja(archivo, hoja, df) ==
    LET cols == DetectarColumnas(df.columns)
    IN  IF FaltaEsencial(cols) THEN [res |-> "omitida", df |-> EmptyFrame]
        ELSE LET ren == Renombrado(df, cols)
             IN  IF Lanza(ren) THEN [res |-> "error", df |-> EmptyFrame]
                 ELSE [res |-> "ok",
                       df |-> ConOrigen(ConMetricas(ConFecha(ren)), archivo, hoja)]

-----------------------------------------------------------------------------
(* pd.concat(lista_df, ignore_index=True) (line 84) *)

RECURSIVE UnionColumnas(_, _)
\* the labels of the frames in order of first appearance
UnionColumnas(acc, dfs) ==
    IF dfs = <<>> THEN acc
    ELSE LET nuevas == SelectSeq(Head(dfs).columns,
                                 LAMBDA c : \A i \in 1..Len(acc) : acc[i] # c)
         IN  UnionColumnas(acc \o nuevas, Tail(dfs))

MismasColumnas(dfs) == \A i \in 1..Len(dfs) : dfs[i].columns = dfs[1].columns

\* concat raises InvalidIndexError when a frame with a repeated label has to be reindexed
ConcatLanza(dfs) ==
    ~MismasColumnas(dfs) /\ \E i \in 1..Len(dfs) : HasDuplicates(dfs[i].columns)

\* one frame's rows laid out under the combined columns, NaN where the frame has no such column
Reindexadas(df, columnas) ==
    Tup([r \in 1..Len(df.rows) |->
        Tup([i \in 1..Len(columnas) |->
            IF Posiciones(df.columns, columnas[i]) = {} THEN NaN
            ELSE Valor(df, r, columnas[i])])])

RECURSIVE FilasConcat(_, _)
FilasConcat(dfs, columnas) ==
    IF dfs = <<>> THEN <<>>
    ELSE Reindexadas(Head(dfs), columnas) \o FilasConcat(Tail(dfs), columnas)

\* a variant of concat that keeps only the columns of the first frame
ConcatPrimeraColumnas(dfs) ==
    LET filas == FilasConcat(dfs, dfs[1].columns)
    IN  DataFrame(dfs[1].columns, Tup([r \in 1..Len(filas) |-> r - 1]), filas)

RECURSIVE FilasTalCual(_)
FilasTalCual(dfs) == IF dfs = <<>> THEN <<>> ELSE Head(dfs).rows \o FilasTalCual(Tail(dfs))

\* the frame concat returns when it does not raise; the index is renumbered from 0
Concat(dfs) ==
    IF MismasColumnas(dfs)
    THEN LET filas == FilasTalCual(dfs)
         IN  DataFrame(dfs[1].columns, Tup([r \in 1..Len(filas) |-> r - 1]), filas)
    ELSE LET columnas == UnionColumnas(<<>>, dfs)
             filas == FilasConcat(dfs, columnas)
         IN  DataFrame(columnas, Tup([r \in 1..Len(filas) |-> r - 1]), filas)

-----------------------------------------------------------------------------
(* The uploads the model runs on (line 108 and the workbooks behind it) *)

HFecha == Str(<<"F", "e", "c", "h", "a">>)
HFECHA == Str(<<"F", "E", "C", "H", "A">>)
HFechaAcento == Str(<<"f", "e_acute", "c", "h", "a">>)
HRegion == Str(<<"R", "e", "g", "i", "o_acute", "n">>)
HRegionLit == Str(<<"r", "e", "g", "i", "o", "n">>)
HClics == Str(<<"C", "l", "i", "c", "s">>)
HClicsQ1 == Str(<<"C", "l", "i", "c", "s", "_", "Q", "1">>)
HClicsQ2 == Str(<<"C", "l", "i", "c", "s", "_", "Q", "2">>)
HImpresiones == Str(<<"I", "m", "p", "r", "e", "s", "i", "o", "n", "e", "s">>)
HConversiones == Str(<<"C", "o", "n", "v", "e", "r", "s", "i", "o", "n", "e", "s">>)
HCoste == Str(<<"C", "o", "s", "t", "e">>)
HCanal == Str(<<"C", "a", "n", "a", "l">>)
HCampana == Str(<<"C", "a", "m", "p", "a", "n_tilde", "a">>)
HFechaRegion == Str(<<"f", "e", "c", "h", "a", "_", "r", "e", "g", "i", "o", "n">>)
HNotas == Str(<<"N", "o", "t", "a", "s">>)
H2024 == Obj(<<"2", "0", "2", "4">>)
HCosteCanal == Str(<<"c", "o", "s", "t", "e", "_", "c", "a", "n", "a", "l">>)

\* the rows of the workbooks: one cell per kind of column
FilaA == [f |-> Timestamp(20240105), g |-> Text("Norte"),
          c |-> Num(50), i |-> Num(1000), v |-> Num(0), k |-> Num(100)]
FilaB == [f |-> Text("2024-02-10"), g |-> Text("Sur"),
          c |-> Num(3), i |-> Num(0), v |-> Num(4), k |-> Num(10)]
FilaMala == [f |-> Text("sin fecha"), g |-> Text("Sur"),
             c |-> Num(1), i |-> Num(2), v |-> Num(1), k |-> Num(7)]
FilaVacia == [f |-> NaN, g |-> Text("Este"),
              c |-> Num(2), i |-> NaN, v |-> NaN, k |-> Num(5)]

\* the cell a row holds under a column of the given kind
Celda(fila, kind) ==
    CASE kind = "x" -> Num(7)
      [] kind = "t" -> Text("nota")
      [] OTHER -> fila[kind]

\* pd.read_excel(xls, sheet_name=sheet): the sheet's header row as columns, a 0-based index
Leida(hs, kinds, filas) ==
    DataFrame(hs, Tup([r \in 1..Len(filas) |-> r - 1]),
              Tup([r \in 1..Len(filas) |-> Tup([i \in 1..Len(hs) |-> Celda(filas[r], kinds[i])])]))

TablaBuena ==
    Leida(<<HFecha, HRegion, HClics, HImpresiones, HConversiones, HCoste>>,
          <<"f", "g", "c", "i", "v", "k">>, <<FilaA, FilaMala, FilaB>>)
TablaOpcional ==
    Leida(<<HFECHA, HRegion, HClicsQ1, HClicsQ2, HImpresiones, HConversiones, HCoste,
            HCampana, HNotas>>,
          <<"f", "g", "x", "c", "i", "v", "k", "t", "t">>, <<FilaB>>)
TablaSinRegion ==
    Leida(<<HFecha, HClics, HImpresiones, HConversiones, HCoste, HCanal>>,
          <<"f", "c", "i", "v", "k", "t">>, <<FilaA>>)
TablaFechaRegion ==
    Leida(<<HFechaRegion, HClics, HImpresiones, HConversiones, HCoste>>,
          <<"f", "c", "i", "v", "k">>, <<FilaA>>)
TablaSinFechas ==
    Leida(<<HFecha, HRegion, HClics, HImpresiones, HConversiones, HCoste>>,
          <<"f", "g", "c", "i", "v", "k">>, <<FilaMala, FilaVacia>>)
TablaRegionDobleSinFechas ==
    Leida(<<HFecha, HRegionLit, HRegion, HClics, HImpresiones, HConversiones, HCoste>>,
          <<"f", "t", "g", "c", "i", "v", "k">>, <<FilaMala>>)

Tablas == {TablaBuena, TablaOpcional, TablaSinRegion, TablaFechaRegion,
           TablaSinFechas, TablaRegionDobleSinFechas}

\* a batch entry: a sheet's frame, or a file that pd.ExcelFile cannot open
Ilegible == [legible |-> FALSE, df |-> EmptyFrame]
Entradas == {[legible |-> TRUE, df |-> t] : t \in Tablas} \cup {Ilegible}

NombresArchivo == <<"a.xlsx", "b.xlsx", "c.xlsx", "d.xlsx", "e.xlsx">>
NombresHoja == <<"Hoja1", "Hoja2", "Hoja3", "Hoja4", "Hoja5">>

Archivo(nombre, legible, hojas) == [name |-> nombre, legible |-> legible, hojas |-> hojas]
Hoja(nombre, df) == [name |-> nombre, df |-> df]

RECURSIVE Agrupar(_, _, _)
\* The files of a batch.  Every unreadable entry is a file of its own; the sheets
\* between them are one workbook each (juntas = FALSE) or share a workbook (juntas = TRUE).
Agrupar(es, juntas, hechos) ==
    IF es = <<>> THEN hechos
    ELSE IF ~Head(es).legible
    THEN Agrupar(Tail(es), juntas,
                 Append(hechos, Archivo(NombresArchivo[Len(hechos) + 1], FALSE, <<>>)))
    ELSE IF /\ juntas
            /\ hechos # <<>>
            /\ hechos[Len(hechos)].legible
    THEN LET ult == hechos[Len(hechos)]
             mas == [ult EXCEPT !.hojas =
                        Append(ult.hojas, Hoja(NombresHoja[Len(ult.hojas) + 1], Head(es).df))]
         IN  Agrupar(Tail(es), juntas, [hechos EXCEPT ![Len(hechos)] = mas])
    ELSE Agrupar(Tail(es), juntas,
                 Append(hechos, Archivo(NombresArchivo[Len(hechos) + 1], TRUE,
                                        <<Hoja(NombresHoja[1], Head(es).df)>>)))

SeqsHasta(S, n) == UNION {[1..k -> S] : k \in 0..n}

Lotes == {Agrupar(es, juntas, <<>>) : es \in SeqsHasta(Entradas, MaxTablas), juntas \in BOOLEAN}

\* the column lists detectar_columnas is run on by itself
Encabezados == {HFecha, HFECHA, HFechaAcento, HRegion, HClicsQ1, HClicsQ2, HCosteCanal,
                HCampana, HFechaRegion, HNotas, H2024}

-----------------------------------------------------------------------------
(* The messages shown: [nivel, texto, archivo, hoja]; archivo and hoja are the   *)
(* names the f-string interpolates, "" when the message interpolates none.       *)

Mensaje(nivel, texto, archivo, hoja) ==
    [nivel |-> nivel, texto |-> texto, archivo |-> archivo, hoja |-> hoja]

\* line 45: the text holds the exception only
MsgErrorLeer == Mensaje("error", "Error al leer el archivo", "", "")
\* line 53
MsgOmitida(archivo, hoja) ==
    Mensaje("warning", "no se han detectado todas las columnas esenciales. Se omite.", archivo, hoja)
\* line 82
MsgErrorHoja(archivo, hoja) == Mensaje("error", "Error procesando la hoja", archivo, hoja)
\* line 114
MsgSinDatos == Mensaje("warning", "No se han cargado datos validos.", "", "")
\* line 116
MsgCargados == Mensaje("success", "Datos cargados correctamente.", "", "")
\* line 118
MsgSube == Mensaje("info", "Sube archivos Excel para comenzar.", "", "")

-----------------------------------------------------------------------------
(* cargar_datos(files) as a function of the batch (lines 38-87): the frames    *)
(* collected, the messages shown, and the frame returned or the exception      *)

RECURSIVE HojasDesde(_, _, _)
\* the sheet loop of one file from sheet k on, acc = [lista, msgs]
HojasDesde(archivo, k, acc) ==
    IF k > Len(archivo.hojas) THEN acc
    ELSE LET hoja == archivo.hojas[k]
             out == ProcesarHoja(archivo.name, hoja.name, hoja.df)
         IN  HojasDesde(archivo, k + 1,
                CASE out.res = "omitida" ->
                       [acc EXCEPT !.msgs = Append(@, MsgOmitida(archivo.name, hoja.name))]
                  [] out.res = "error" ->
                       [acc EXCEPT !.msgs = Append(@, MsgErrorHoja(archivo.name, hoja.name))]
                  [] out.res = "ok" ->
                       [acc EXCEPT !.lista = Append(@, out.df)])

RECURSIVE ArchivosDesde(_, _, _)
\* the file loop from file k on
ArchivosDesde(fs, k, acc) ==
    IF k > Len(fs) THEN acc
    ELSE IF ~fs[k].legible
    THEN ArchivosDesde(fs, k + 1, [acc EXCEPT !.msgs = Append(@, MsgErrorLeer)])
    ELSE ArchivosDesde(fs, k + 1, HojasDesde(fs[k], 1, acc))

CargarDatos(fs) ==
    LET acc == ArchivosDesde(fs, 1, [lista |-> <<>>, msgs |-> <<>>])
    IN  IF acc.lista = <<>>
        THEN [lanza |-> FALSE, datos |-> EmptyFrame, msgs |-> acc.msgs]
        ELSE IF ConcatLanza(acc.lista)
        THEN [lanza |-> TRUE, datos |-> EmptyFrame, msgs |-> acc.msgs]
        ELSE [lanza |-> FALSE, datos |-> Concat(acc.lista), msgs |-> acc.msgs]

-----------------------------------------------------------------------------
(* The script as a state machine *)

Init ==
    /\ files \in Lotes
    /\ pc = "inicio"
    /\ fi = 0
    /\ si = 0
    /\ lista_df = <<>>
    /\ mensajes = <<>>
    /\ datos = EmptyFrame
    /\ origen_filas = <<>>
    /\ filtros = FALSE
    /\ encabezados = <<>>
    /\ ci = 0
    /\ columnas_detectadas = DiccionarioInicial

\* lines 110-112 and 117-118: with no upload the script only shows the hint
Inicio ==
    /\ pc = "inicio"
    /\ IF files = <<>>
       THEN /\ mensajes' = Append(mensajes, MsgSube)
            /\ pc' = "filtros"
       ELSE /\ pc' = "archivos"
            /\ UNCHANGED mensajes
    /\ UNCHANGED <<files, fi, si, lista_df, datos, origen_filas, filtros,
                   encabezados, ci, columnas_detectadas>>

\* lines 40-46: the next file is opened, or reported and passed over
AbrirArchivo ==
    /\ pc = "archivos"
    /\ fi < Len(files)
    /\ IF files[fi + 1].legible
       THEN /\ pc' = "hojas"
            /\ si' = 0
            /\ UNCHANGED <<fi, mensajes>>
       ELSE /\ mensajes' = Append(mensajes, MsgErrorLeer)
            /\ fi' = fi + 1
            /\ UNCHANGED <<pc, si>>
    /\ UNCHANGED <<files, lista_df, datos, origen_filas, filtros,
                   encabezados, ci, columnas_detectadas>>

\* lines 47-82: one iteration of the sheet loop; after the last sheet the file loop goes on
PasoHoja ==
    /\ pc = "hojas"
    /\ si < Len(files[fi + 1].hojas)
    /\ LET archivo == files[fi + 1]
           hoja == archivo.hojas[si + 1]
           out == ProcesarHoja(archivo.name, hoja.name, hoja.df)
       IN  CASE out.res = "omitida" ->
                  /\ mensajes' = Append(mensajes, MsgOmitida(archivo.name, hoja.name))
                  /\ UNCHANGED <<lista_df, origen_filas>>
             [] out.res = "error" ->
                  /\ mensajes' = Append(mensajes, MsgErrorHoja(archivo.name, hoja.name))
                  /\ UNCHANGED <<lista_df, origen_filas>>
             [] out.res = "ok" ->
                  /\ lista_df' = Append(lista_df, out.df)
                  /\ origen_filas' = origen_filas \o
                        [r \in 1..Len(out.df.rows) |-> <<fi + 1, si + 1, out.df.index[r]>>]
                  /\ UNCHANGED mensajes
    /\ IF si + 1 < Len(files[fi + 1].hojas)
       THEN /\ si' = si + 1
            /\ UNCHANGED <<pc, fi>>
       ELSE /\ si' = 0
            /\ fi' = fi + 1
            /\ pc' = "archivos"
    /\ UNCHANGED <<files, datos, filtros, encabezados, ci, columnas_detectadas>>

\* lines 83-87 and the assignment of line 112; an exception of pd.concat is caught nowhere
Devolver ==
    /\ pc = "archivos"
    /\ fi = Len(files)
    /\ IF lista_df # <<>>
       THEN IF ConcatLanza(lista_df)
            THEN /\ pc' = "excepcion"
                 /\ UNCHANGED datos
            ELSE /\ datos' = Concat(lista_df)
                 /\ pc' = "estado"
       ELSE /\ datos' = EmptyFrame
            /\ pc' = "estado"
    /\ UNCHANGED <<files, fi, si, lista_df, mensajes, origen_filas, filtros,
                   encabezados, ci, columnas_detectadas>>

\* lines 113-116
MostrarEstado ==
    /\ pc = "estado"
    /\ mensajes' = Append(mensajes, IF IsEmpty(datos) THEN MsgSinDatos ELSE MsgCargados)
    /\ pc' = "filtros"
    /\ UNCHANGED <<files, fi, si, lista_df, datos, origen_filas, filtros,
                   encabezados, ci, columnas_detectadas>>

\* line 120: the filters and charts run only on a frame that is not empty
SeccionFiltros ==
    /\ pc = "filtros"
    /\ filtros' = ~IsEmpty(datos)
    /\ pc' = "fin"
    /\ UNCHANGED <<files, fi, si, lista_df, mensajes, datos, origen_filas,
                   encabezados, ci, columnas_detectadas>>

Next ==
    \/ Inicio
    \/ AbrirArchivo
    \/ PasoHoja
    \/ Devolver
    \/ MostrarEstado
    \/ SeccionFiltros

Spec == Init /\ [][Next]_vars

-----------------------------------------------------------------------------
(* detectar_columnas run by itself, one column per step *)

InitDetectar ==
    /\ encabezados \in SeqsHasta(Encabezados, MaxEncabezados)
    /\ ci = 0
    /\ columnas_detectadas = DiccionarioInicial
    /\ pc = "detectar"
    /\ files = <<>>
    /\ fi = 0
    /\ si = 0
    /\ lista_df = <<>>
    /\ mensajes = <<>>
    /\ datos = EmptyFrame
    /\ origen_filas = <<>>
    /\ filtros = FALSE

\* lines 30-34 for the next column
DetectarPaso ==
    /\ pc = "detectar"
    /\ ci < Len(encabezados)
    /\ columnas_detectadas' = DetectarCol(columnas_detectadas, encabezados[ci + 1])
    /\ ci' = ci + 1
    /\ UNCHANGED <<files, pc, fi, si, lista_df, mensajes, datos, origen_filas, filtros,
                   encabezados>>

\* line 35
DetectarFin ==
    /\ pc = "detectar"
    /\ ci = Len(encabezados)
    /\ pc' = "detectado"
    /\ UNCHANGED <<files, fi, si, lista_df, mensajes, datos, origen_filas, filtros,
                   encabezados, ci, columnas_detectadas>>

NextDetectar == DetectarPaso \/ DetectarFin

SpecDetectar == InitDetectar /\ [][NextDetectar]_vars

-----------------------------------------------------------------------------
(* Vocabulary of the properties *)

ClavesEsenciales == {Esenciales[i] : i \in 1..Len(Esenciales)}
ClavesOpcionales == {Opcionales[i] : i \in 1..Len(Opcionales)}

\* the script has ended on an upload: cargar_datos returned, or pd.concat raised
Recorrido == files # <<>> /\ pc \in {"fin", "excepcion"}
\* the script has ended and cargar_datos had returned `datos`
Devuelto == files # <<>> /\ pc = "fin"

\* the sheets of the batch, as <<file, sheet>> positions
HojasLote == {<<f, h>> \in (1..Len(files)) \X (1..Len(NombresHoja)) :
                files[f].legible /\ h <= Len(files[f].hojas)}
Cruda(t) == files[t[1]].hojas[t[2]].df

\* What the resolver and the renames make of sheet t: the detected columns, whether
\* an essential key stays unresolved (sin), whether the try block raises after the
\* gate (err), and the labels of the sheet's columns after the renames.
Info(t) ==
    LET cols == DetectarColumnas(Cruda(t).columns)
        sin == \E key \in ClavesEsenciales : cols[key] = None
        ren == IF sin THEN Cruda(t) ELSE Renombrado(Cruda(t), cols)
    IN  [cols |-> cols, sin |-> sin, err |-> ~sin /\ Lanza(ren), etiquetas |-> ren.columns]

\* detectar_columnas leaves an essential key of the sheet unresolved
SinEsencial(t) == Info(t).sin
\* the sheet passes the gate and then raises inside the try block
ConError(t) == Info(t).err
\* the sheet has every essential column and is processed without error
Aceptada(t) == ~Info(t).sin /\ ~Info(t).err

\* the positions of datos (and of origen_filas) that came from sheet t
FilasDe(t) == {j \in 1..Len(origen_filas) : origen_filas[j][1] = t[1] /\ origen_filas[j][2] = t[2]}

\* the column of the raw sheet that is labelled `label` after the renames
ColCruda(t, label) ==
    LET etiquetas == Info(t).etiquetas
    IN  CHOOSE i \in 1..Len(etiquetas) : etiquetas[i] = label

\* a date cell of a workbook that can be read as a date
EsFecha(c) == c.t \in {"date", "num"} \/ (c.t = "text" /\ c.s \in {"2024-01-05", "2024-02-10"})

-----------------------------------------------------------------------------
(* Properties *)

\* the keywords each header of Encabezados holds once accents and case are set aside
PalabrasDe(h) ==
    CASE h \in {HFecha, HFECHA, HFechaAcento} -> {"fecha"}
      [] h = HRegion -> {"region"}
      [] h \in {HClicsQ1, HClicsQ2} -> {"clics"}
      [] h = HCosteCanal -> {"coste", "canal"}
      [] h = HCampana -> {"campana"}
      [] h = HFechaRegion -> {"fecha", "region"}
      [] OTHER -> {}

Maximo(S) == CHOOSE x \in S : \A y \in S : y <= x

\* C3: when detectar_columnas returns, every one of the nine keys holds the last
\* header, in column order, whose accent-free lower-case form contains the key,
\* and None exactly when no header contains it; keys are resolved independently.
C3_UltimaCoincidencia ==
    pc = "detectado" =>
        \A key \in DOMAIN DiccionarioInicial :
            LET M == {i \in 1..Len(encabezados) : key \in PalabrasDe(encabezados[i])}
            IN  IF M = {} THEN columnas_detectadas[key] = None
                ELSE columnas_detectadas[key] = encabezados[Maximo(M)]

\* two different headers hold "clics" and the later one won, while one header serves two keys
C3_Testigo ==
    /\ pc = "detectado"
    /\ \E i, j \in 1..Len(encabezados) :
          /\ i < j
          /\ encabezados[i] # encabezados[j]
          /\ "clics" \in PalabrasDe(encabezados[i]) \cap PalabrasDe(encabezados[j])
          /\ columnas_detectadas["clics"] = encabezados[j]
    /\ columnas_detectadas["fecha"] = columnas_detectadas["region"]
    /\ columnas_detectadas["fecha"] # None
    /\ columnas_detectadas["leads"] = None

\* C1: no row of the returned dataset comes from a sheet for which detectar_columnas
\* left one of the six essential keys unresolved, whatever optional keys it resolved.
C1_SinEsencialSinFilas ==
    Devuelto =>
        /\ Len(datos.rows) = Len(origen_filas)
        /\ \A t \in HojasLote : SinEsencial(t) => FilasDe(t) = {}

\* a batch was loaded that holds rows and a sheet without region but with canal
C1_Testigo ==
    /\ pc = "fin"
    /\ Len(datos.rows) > 0
    /\ \E t \in HojasLote :
          /\ SinEsencial(t)
          /\ Info(t).cols["canal"] # None
          /\ Len(Cruda(t).rows) > 0
          /\ \E m \in 1..Len(mensajes) : mensajes[m] = MsgOmitida(files[t[1]].name, files[t[1]].hojas[t[2]].name)

\* C4: every row of the returned dataset carries the file name and the sheet name
\* of the sheet it was read from, and holds that sheet's own values.
C4_Procedencia ==
    Devuelto =>
        /\ Len(datos.rows) = Len(origen_filas)
        /\ \A j \in 1..Len(datos.rows) :
              LET t == <<origen_filas[j][1], origen_filas[j][2]>>
                  fila == Cruda(t).rows[origen_filas[j][3] + 1]
              IN  /\ Valor(datos, j, ArchivoLabel) = Text(files[t[1]].name)
                  /\ Valor(datos, j, HojaLabel) = Text(files[t[1]].hojas[t[2]].name)
                  /\ Valor(datos, j, Canon("clics")) = fila[ColCruda(t, Canon("clics"))]
                  /\ Valor(datos, j, Canon("coste")) = fila[ColCruda(t, Canon("coste"))]

\* rows of two different files ended up in one dataset
C4_Testigo ==
    /\ pc = "fin"
    /\ \E i, j \in 1..Len(origen_filas) :
          /\ origen_filas[i][1] # origen_filas[j][1]
          /\ Valor(datos, i, ArchivoLabel) # Valor(datos, j, ArchivoLabel)
          /\ Valor(datos, i, HojaLabel) = Valor(datos, j, HojaLabel)

\* the values of a row of datos under the metric columns
Clics(j) == Valor(datos, j, Canon("clics"))
Impresiones(j) == Valor(datos, j, Canon("impresiones"))
Conversiones(j) == Valor(datos, j, Canon("conversiones"))
Coste(j) == Valor(datos, j, Canon("coste"))

\* the number cell q is the quotient a / b (times `por`), by cross-multiplication
EsCociente(q, a, b, por) ==
    /\ q.t = "num"
    /\ a.t = "num"
    /\ q.n * b.n * a.d = por * a.n * b.d * q.d

\* C6: on every row of the returned dataset CTR is clics / impresiones * 100 when
\* impresiones > 0 and 0 otherwise, Coste_por_conversion is coste / conversiones
\* when conversiones > 0 and null otherwise (never 0, never infinite); and a row
\* with a zero denominator and a readable date is in the dataset, its sheet not skipped.
C6_Metricas ==
    Devuelto =>
        /\ \A j \in 1..Len(datos.rows) :
              /\ IF Impresiones(j).t = "num" /\ Impresiones(j).n > 0
                 THEN EsCociente(Valor(datos, j, CTRLabel), Clics(j), Impresiones(j), 100)
                 ELSE Valor(datos, j, CTRLabel) = Num(0)
              /\ IF Conversiones(j).t = "num" /\ Conversiones(j).n > 0
                 THEN EsCociente(Valor(datos, j, CPCLabel), Coste(j), Conversiones(j), 1)
                 ELSE Valor(datos, j, CPCLabel).t = "nan"
        /\ \A t \in HojasLote : Aceptada(t) =>
              LET cf == ColCruda(t, Canon("fecha"))
                  ci0 == ColCruda(t, Canon("impresiones"))
                  cv == ColCruda(t, Canon("conversiones"))
              IN  \A r \in 1..Len(Cruda(t).rows) :
                      LET fila == Cruda(t).rows[r]
                      IN  /\ EsFecha(fila[cf])
                          /\ fila[ci0] = Num(0) \/ fila[cv] = Num(0)
                          => \E j \in FilasDe(t) : origen_filas[j][3] = r - 1

\* the dataset holds a row without impressions, a row without conversions and a row with a CTR of 5
C6_Testigo ==
    /\ pc = "fin"
    /\ \E i, j \in 1..Len(datos.rows) :
          /\ Impresiones(i) = Num(0)
          /\ Clics(i).n > 0
          /\ Valor(datos, i, CTRLabel) = Num(0)
          /\ Conversiones(i).n > 0
          /\ Valor(datos, i, CPCLabel).d = 2
          /\ Conversiones(j) = Num(0)
          /\ Coste(j).n > 0
          /\ Valor(datos, j, CPCLabel) = NaN
          /\ Valor(datos, j, CTRLabel) = Num(5)

RECURSIVE IndicesConFecha(_, _, _)
\* the index labels of the rows 1..n of sheet t whose date, in column c, can be read, in order
IndicesConFecha(t, c, n) ==
    IF n = 0 THEN <<>>
    ELSE IF EsFecha(Cruda(t).rows[n][c])
    THEN Append(IndicesConFecha(t, c, n - 1), n - 1)
    ELSE IndicesConFecha(t, c, n - 1)

\* the index labels of the rows appended for sheet t, in the order they were appended
IndicesDe(t) ==
    LET pos == SelectSeq([j \in 1..Len(origen_filas) |-> j], LAMBDA j : j \in FilasDe(t))
    IN  [k \in 1..Len(pos) |-> origen_filas[pos[k]][3]]

EtiquetasFijas ==
    {Canon(key) : key \in ClavesEsenciales} \cup {CTRLabel, CPCLabel, ArchivoLabel, HojaLabel}
Etiquetas(df) == {df.columns[i] : i \in 1..Len(df.columns)}
HojaDeFila(j) == <<origen_filas[j][1], origen_filas[j][2]>>

\* the labels the accepted sheets of the batch carry after the renames
EtiquetasAceptadas ==
    UNION {LET inf == Info(u)
           IN  IF inf.sin \/ inf.err THEN {}
               ELSE {inf.etiquetas[i] : i \in 1..Len(inf.etiquetas)} : u \in HojasLote}

C2_AislamientoDeFallos ==
    /\ Recorrido
    /\ \/ \E f \in 1..Len(files) : ~files[f].legible
       \/ \E t \in HojasLote : SinEsencial(t) \/ ConError(t)
    => /\ pc = "fin"
       /\ Len(datos.rows) = Len(origen_filas)
       /\ \A t \in HojasLote : Aceptada(t) =>
             \A r \in 1..Len(Cruda(t).rows) :
                 EsFecha(Cruda(t).rows[r][ColCruda(t, Canon("fecha"))])
                 => \E j \in FilasDe(t) : origen_filas[j][3] = r - 1

TextosDeCarga ==
    {MsgErrorLeer.texto, MsgOmitida("", "").texto, MsgErrorHoja("", "").texto}

\* C7 as stated: every message shown while loading names the file (and, for a
\* sheet, the sheet) it is about, and every skipped sheet or file has such a message.
C7_DiagnosticosNombranTabla ==
    Recorrido =>
        /\ \A m \in 1..Len(mensajes) :
              mensajes[m].texto \in TextosDeCarga =>
                  /\ mensajes[m].archivo # ""
                  /\ mensajes[m].texto # MsgErrorLeer.texto => mensajes[m].hoja # ""
        /\ \A t \in HojasLote : SinEsencial(t) \/ ConError(t) =>
              \E m \in 1..Len(mensajes) :
                  /\ mensajes[m].texto \in TextosDeCarga
                  /\ mensajes[m].archivo = files[t[1]].name
                  /\ mensajes[m].hoja = files[t[1]].hojas[t[2]].name
        /\ \A f \in 1..Len(files) : ~files[f].legible =>
              \E m \in 1..Len(mensajes) :
                  /\ mensajes[m].texto = MsgErrorLeer.texto
                  /\ mensajes[m].archivo = files[f].name

\* C8 as stated: when no sheet of an upload contributed a row, the script ends with
\* an empty dataset, exactly one "nothing was loaded" message, no success message,
\* and the filters and charts not run.
C8_LoteVacio ==
    /\ Recorrido
    /\ origen_filas = <<>>
    => /\ pc = "fin"
       /\ IsEmpty(datos)
       /\ Cardinality({m \in 1..Len(mensajes) : mensajes[m] = MsgSinDatos}) = 1
       /\ \A m \in 1..Len(mensajes) : mensajes[m] # MsgCargados
       /\ ~filtros

\* the sequence with the elements at i and i + 1 exchanged
Intercambio(q, i) ==
    Tup([k \in 1..Len(q) |-> IF k = i THEN q[i + 1] ELSE IF k = i + 1 THEN q[i] ELSE q[k]])

\* The batch with two neighbouring files exchanged, or two neighbouring sheets of
\* one workbook exchanged (every reordering of the tables is a chain of these).
Reordenados ==
    {Intercambio(files, i) : i \in 1..(Len(files) - 1)} \cup
    UNION {{[files EXCEPT ![f].hojas = Intercambio(files[f].hojas, i)] :
                i \in 1..(Len(files[f].hojas) - 1)} : f \in 1..Len(files)}

\* a row as the set of its <<label, value>> pairs
FilaComo(df, j) == {<<df.columns[i], df.rows[j][i]>> : i \in 1..Len(df.columns)}
FilasComo(df) == Tup([j \in 1..Len(df.rows) |-> FilaComo(df, j)])

Veces(q, x) == Cardinality({k \in 1..Len(q) : q[k] = x})
\* the two sequences hold the same elements the same number of times
MismoMultiset(p, q) ==
    /\ Len(p) = Len(q)
    /\ \A k \in 1..Len(p) : Veces(p, p[k]) = Veces(q, p[k])

\* the messages cargar_datos showed in this run
MensajesDeCarga == SelectSeq(mensajes, LAMBDA m : m.texto \in TextosDeCarga)

\* C9: loading the same tables in another order gives the same rows (values,
\* metrics and provenance) and the same messages, each the same number of times;
\* only their order changes.
C9_OrdenDeTablas ==
    Recorrido =>
        \A otro \in Reordenados :
            LET r == CargarDatos(otro)
            IN  /\ r.lanza <=> pc = "excepcion"
                /\ MismoMultiset(r.msgs, MensajesDeCarga)
                /\ ~r.lanza => MismoMultiset(FilasComo(r.datos), FilasComo(datos))

\* a batch of three tables with rows, a skipped sheet and differing columns was loaded
C9_Testigo ==
    /\ pc = "fin"
    /\ Cardinality(Reordenados) >= 2
    /\ Len(MensajesDeCarga) >= 1
    /\ Len(lista_df) >= 2
    /\ lista_df[1].columns # lista_df[2].columns
    /\ Len(lista_df[1].rows) > 0
    /\ Len(lista_df[2].rows) > 0

====
